---------------------------- MODULE Spec2Model ----------------------------
(***************************************************************************)
(* A model of the Either value type of src/src/either.ts and of the        *)
(* collection combinators and the wrapping functions safeSync and           *)
(* safeAsync of either-types.ts.                                            *)
(*                                                                         *)
(* Instances live in a heap (a sequence of records with the three private  *)
(* fields of the class); a reference to an instance is its index in the    *)
(* heap, so "the same instance" is "the same index".  Every method is an   *)
(* operator from a heap and its arguments to an outcome: the heap after    *)
(* the call, the value returned or the exception thrown, and the list of   *)
(* invocations of user-supplied callbacks the call made.                   *)
(***************************************************************************)
EXTENDS Integers, Sequences, FiniteSets, TLC

VARIABLES heap, made, last, chain, tasks

vars == <<heap, made, last, chain, tasks>>

(* An allocating call is made only while fewer than this many instances    *)
(* exist: under Spec, under SpecZip and under SpecChain.                    *)
MaxHeap == 2

MaxZipHeap == 3

MaxChainHeap == 4

(* Under SpecSafe the factories are called only while fewer than this many  *)
(* instances exist, and safeSync and safeAsync while at most this many do.  *)
MaxSafeHeap == 1

(* Under SpecAsync a call that builds an instance is made only while fewer  *)
(* than this many exist.                                                    *)
MaxAsyncHeap == 1

(* Under SpecLift a call is made only while fewer than this many instances  *)
(* exist.                                                                   *)
MaxLiftHeap == 2

(* Under SpecList the factories are called only while fewer than this many  *)
(* instances exist and a combinator only while at most this many do; a      *)
(* list has at most one element more than that.                             *)
MaxListHeap == 2

(* Under SpecTraverse a call is made only while fewer than MaxTraverseHeap  *)
(* instances exist, on a list of at most MaxTraverseLen values.             *)
MaxTraverseHeap == 1

MaxTraverseLen == 3

(* Under SpecFunctor a call that builds an instance is made only while      *)
(* fewer than this many exist.                                              *)
MaxFunctorHeap == 3

(* Under SpecConcurrent a safeAsync call is made only while the instances   *)
(* and the calls in flight are together fewer than this many.               *)
MaxConcurrent == 3

-----------------------------------------------------------------------------
(* JavaScript values, tagged by their runtime type. *)

Undef == [t |-> "undefined"]

Null == [t |-> "null"]

Num(n) == [t |-> "number", n |-> n]

Str(s) == [t |-> "string", s |-> s]

Bool(b) == [t |-> "boolean", b |-> b]

Arr(items) == [t |-> "array", items |-> items]

Ref(i) == [t |-> "Either", ref |-> i]

(* new ErrClass(message), for a class that is Error or extends it. *)
Construct(class, message) == [t |-> "Error", class |-> class, message |-> message]

ErrorObj(message) == Construct("Error", message)

(* A plain object: its own properties in insertion order. *)
Field(key, val) == [key |-> key, val |-> val]

Obj(fields) == [t |-> "object", fields |-> fields]

(* A property value that is the object holding the property. *)
Circular == [t |-> "circular"]

BigInt(n) == [t |-> "bigint", n |-> n]

PromiseOf(state, v) == [t |-> "Promise", state |-> state, v |-> v]

(* The payloads the factories are called with. *)
Payloads == {Undef, Null, Num(1)}

-----------------------------------------------------------------------------
(* Outcomes of a call. *)

Return(h, v, c) == [heap |-> h, ret |-> v, thrown |-> FALSE, calls |-> c]

Throw(h, ex, c) == [heap |-> h, ret |-> ex, thrown |-> TRUE, calls |-> c]

-----------------------------------------------------------------------------
(* The class: constructor, factories, state queries, extraction. *)

New(h, value, error, isOkFlag) ==
    Append(h, [value |-> value, error |-> error, _isOk |-> isOkFlag])

Ok(h, value) == Return(New(h, value, Undef, TRUE), Ref(Len(h) + 1), <<>>)

Error(h, error) == Return(New(h, Undef, error, FALSE), Ref(Len(h) + 1), <<>>)

isOk_valueDefined(h, x) == h[x]._isOk /\ h[x].value # Undef

isOk(h, x) == h[x]._isOk

isError_errorDefined(h, x) == h[x].error # Undef

isError(h, x) == ~h[x]._isOk

getValue(h, x) ==
    IF ~isOk(h, x)
    THEN Throw(h, ErrorObj("Cannot access value in a non-Ok instance"), <<>>)
    ELSE Return(h, h[x].value, <<>>)

getError_unguarded(h, x) == Return(h, h[x].error, <<>>)

getError(h, x) ==
    IF ~isError(h, x)
    THEN Throw(h, ErrorObj("Cannot access error in a non-Error instance"), <<>>)
    ELSE Return(h, h[x].error, <<>>)

-----------------------------------------------------------------------------
(* User-supplied callbacks.  A callback is a descriptor; Invoke runs it on  *)
(* a tuple of arguments and logs the invocation.  A callback that builds an *)
(* Either does so through the factories.                                    *)

Invocation(fn, args, ret, thrown) ==
    [fn |-> fn, args |-> args, ret |-> ret, thrown |-> thrown]

Identity == [kind |-> "identity"]

Const(c) == [kind |-> "const", c |-> c]

Throws == [kind |-> "throws"]

Swapped == [kind |-> "swapped"]

IsNumber == [kind |-> "isNumber"]

Existing(k) == [kind |-> "existing", k |-> k]

NewOk == [kind |-> "newOk"]

NewError(e) == [kind |-> "newError", e |-> e]

Spread(fn) == [kind |-> "spread", inner |-> fn]

(* x => typeof x === 'number' ? Either.Ok(x)                                *)
(*    : typeof x === 'string' ? Either.Error(x) : (() => { throw ... })()   *)
Parse == [kind |-> "parse"]

(* x => [x] *)
Boxed == [kind |-> "boxed"]

(* x => f(g(x)) *)
Compose(f, g) == [kind |-> "compose", f |-> f, g |-> g]

(* () => { throw value } *)
ThrowsValue(value) == [kind |-> "throwsValue", value |-> value]

(* Operations that return a promise: it is later fulfilled with v, later    *)
(* rejected with reason, or never settled.                                  *)
Resolves(v) == [kind |-> "resolves", v |-> v]

Rejects(reason) == [kind |-> "rejects", reason |-> reason]

Stalls == [kind |-> "stalls"]

(* An error class handed over as ErrClass. *)
ErrorClass(name) == [kind |-> "construct", name |-> name]

Boom == ErrorObj("Transform failed")

Logged(fn, args, r) ==
    [r EXCEPT !.calls = <<Invocation(fn, args, r.ret, r.thrown)>>]

InvokeUser(h, fn, args) ==
    Logged(fn, args,
        CASE fn.kind = "identity" -> Return(h, args[1], <<>>)
          [] fn.kind = "const"    -> Return(h, fn.c, <<>>)
          [] fn.kind = "throws"   -> Throw(h, Boom, <<>>)
          [] fn.kind = "swapped"  -> Return(h, Arr(<<args[2], args[1]>>), <<>>)
          [] fn.kind = "isNumber" -> Return(h, Bool(args[1].t = "number"), <<>>)
          [] fn.kind = "existing" -> Return(h, Ref(fn.k), <<>>)
          [] fn.kind = "newOk"    -> Ok(h, args[1])
          [] fn.kind = "newError" -> Error(h, fn.e)
          [] fn.kind = "throwsValue" -> Throw(h, fn.value, <<>>)
          [] fn.kind = "boxed" -> Return(h, Arr(<<args[1]>>), <<>>)
          [] fn.kind = "parse" ->
                IF args[1].t = "number"
                THEN Ok(h, args[1])
                ELSE IF args[1].t = "string"
                     THEN Error(h, args[1])
                     ELSE Throw(h, Boom, <<>>)
          [] fn.kind \in {"resolves", "rejects", "stalls"} ->
                Return(h, PromiseOf("pending", Undef), <<>>))

(* ([a, b]) => fn(a, b): the arrow function zipWith hands to map; and the   *)
(* composition x => f(g(x)), one invocation for the caller.                 *)
Invoke(h, fn, args) ==
    IF fn.kind = "spread"
    THEN InvokeUser(h, fn.inner, args[1].items)
    ELSE IF fn.kind = "compose"
         THEN LET inner == InvokeUser(h, fn.g, args)
              IN  Logged(fn, args,
                         IF inner.thrown
                         THEN inner
                         ELSE InvokeUser(inner.heap, fn.f, <<inner.ret>>))
         ELSE InvokeUser(h, fn, args)

(* Sequencing of two calls: r is the outcome of the first and s that of    *)
(* the second, made on the heap and the result of the first; s is not       *)
(* reached when the first threw.  The invocation logs are concatenated.     *)
Then(r, s) ==
    IF r.thrown
    THEN r
    ELSE [s EXCEPT !.calls = r.calls \o s.calls]

Truthy(v) == v = Bool(TRUE)

-----------------------------------------------------------------------------
(* Pattern matching, transformation, combination. *)

fold_bothHandlers(h, x, fnError, fnOk) ==
    LET a == Invoke(h, fnError, <<h[x].error>>)
        b == Invoke(h, fnOk, <<h[x].value>>)
    IN  Then(a, Then(b, IF isError(h, x) THEN Return(h, a.ret, <<>>) ELSE b))

fold(h, x, fnError, fnOk) ==
    IF isError(h, x)
    THEN Invoke(h, fnError, <<h[x].error>>)
    ELSE Invoke(h, fnOk, <<h[x].value>>)

map_inPlace(h, x, fn) ==
    IF isOk(h, x)
    THEN LET r == Invoke(h, fn, <<h[x].value>>)
         IN  Then(r, Return([r.heap EXCEPT ![x].value = r.ret], Ref(x), <<>>))
    ELSE Return(h, Ref(x), <<>>)

map_invokesOnError(h, x, fn) ==
    LET r == Invoke(h, fn, <<h[x].value>>)
    IN  Then(r, IF isOk(h, x) THEN Ok(r.heap, r.ret) ELSE Error(r.heap, h[x].error))

map_dropsResult(h, x, fn) ==
    IF isOk(h, x)
    THEN LET r == Invoke(h, fn, <<h[x].value>>)
         IN  Then(r, Ok(r.heap, h[x].value))
    ELSE Error(h, h[x].error)

map_boxes(h, x, fn) ==
    IF isOk(h, x)
    THEN LET r == Invoke(h, fn, <<h[x].value>>)
         IN  Then(r, Ok(r.heap, Arr(<<r.ret>>)))
    ELSE Error(h, h[x].error)

map(h, x, fn) ==
    IF isOk(h, x)
    THEN LET r == Invoke(h, fn, <<h[x].value>>)
         IN  Then(r, Ok(r.heap, r.ret))
    ELSE Error(h, h[x].error)

flatMap_wraps(h, x, fn) ==
    IF isOk(h, x)
    THEN LET r == Invoke(h, fn, <<h[x].value>>)
         IN  Then(r, Ok(r.heap, r.ret))
    ELSE Error(h, h[x].error)

flatMap(h, x, fn) ==
    IF isOk(h, x)
    THEN Invoke(h, fn, <<h[x].value>>)
    ELSE Error(h, h[x].error)

mapError(h, x, fn) ==
    IF isError(h, x)
    THEN LET r == Invoke(h, fn, <<h[x].error>>)
         IN  Then(r, Error(r.heap, r.ret))
    ELSE Ok(h, h[x].value)

getOrElse(h, x, defaultValue) ==
    Return(h, IF isOk(h, x) THEN h[x].value ELSE defaultValue, <<>>)

zip_rightFirst(h, x, other) ==
    IF isError(h, other)
    THEN LET e == getError(h, other)
         IN  Then(e, Error(e.heap, e.ret))
    ELSE IF isError(h, x)
         THEN Error(h, h[x].error)
         ELSE LET v == getValue(h, other)
              IN  Then(v, Ok(v.heap, Arr(<<h[x].value, v.ret>>)))

zip(h, x, other) ==
    IF isError(h, x)
    THEN Error(h, h[x].error)
    ELSE IF isError(h, other)
         THEN LET e == getError(h, other)
              IN  Then(e, Error(e.heap, e.ret))
         ELSE LET v == getValue(h, other)
              IN  Then(v, Ok(v.heap, Arr(<<h[x].value, v.ret>>)))

zipWith_eager(h, x, other, fn) ==
    LET c == Invoke(h, fn, <<h[x].value, h[other].value>>)
        z == zip(c.heap, x, other)
    IN  Then(c, Then(z, map(z.heap, z.ret.ref, Const(c.ret))))

zipWith(h, x, other, fn) ==
    LET z == zip(h, x, other)
    IN  Then(z, map(z.heap, z.ret.ref, Spread(fn)))

filter_keepsError(h, x, predicate, error) ==
    IF isOk(h, x)
    THEN LET p == Invoke(h, predicate, <<h[x].value>>)
         IN  Then(p, IF Truthy(p.ret)
                     THEN Return(p.heap, Ref(x), <<>>)
                     ELSE Error(p.heap, error))
    ELSE Error(h, h[x].error)

filter(h, x, predicate, error) ==
    IF isOk(h, x)
    THEN LET p == Invoke(h, predicate, <<h[x].value>>)
         IN  Then(p, IF Truthy(p.ret)
                     THEN Return(p.heap, Ref(x), <<>>)
                     ELSE Error(p.heap, error))
    ELSE Error(h, error)

find(h, x, fn) == flatMap(h, x, fn)

-----------------------------------------------------------------------------
(* Conversion, recovery, side effects. *)

toPromise(h, x) ==
    Return(h, IF isOk(h, x)
              THEN PromiseOf("fulfilled", h[x].value)
              ELSE PromiseOf("rejected", h[x].error), <<>>)

toOptional(h, x) == Return(h, IF isOk(h, x) THEN h[x].value ELSE Undef, <<>>)

swap(h, x) == IF isOk(h, x) THEN Error(h, h[x].value) ELSE Ok(h, h[x].error)

recover_keepsFailure(h, x, fn) ==
    IF isError(h, x)
    THEN LET r == Invoke(h, fn, <<h[x].error>>)
         IN  Then(r, Error(r.heap, r.ret))
    ELSE Ok(h, h[x].value)

recover(h, x, fn) ==
    IF isError(h, x)
    THEN LET r == Invoke(h, fn, <<h[x].error>>)
         IN  Then(r, Ok(r.heap, r.ret))
    ELSE Ok(h, h[x].value)

recoverWith_copies(h, x, fn) ==
    IF isError(h, x)
    THEN Invoke(h, fn, <<h[x].error>>)
    ELSE Ok(h, h[x].value)

recoverWith(h, x, fn) ==
    IF isError(h, x)
    THEN Invoke(h, fn, <<h[x].error>>)
    ELSE Return(h, Ref(x), <<>>)

tap_returnsResult(h, x, fn) ==
    IF isOk(h, x)
    THEN LET r == Invoke(h, fn, <<h[x].value>>)
         IN  Then(r, Ok(r.heap, r.ret))
    ELSE Return(h, Ref(x), <<>>)

tap(h, x, fn) ==
    IF isOk(h, x)
    THEN LET r == Invoke(h, fn, <<h[x].value>>)
         IN  Then(r, Return(r.heap, Ref(x), <<>>))
    ELSE Return(h, Ref(x), <<>>)

tapError(h, x, fn) ==
    IF isError(h, x)
    THEN LET r == Invoke(h, fn, <<h[x].error>>)
         IN  Then(r, Return(r.heap, Ref(x), <<>>))
    ELSE Return(h, Ref(x), <<>>)

-----------------------------------------------------------------------------
(* Collection combinators over lists of instances. *)

(* value is falsy: what a test `value ? ... : ...` would take for absent. *)
Falsy(value) == value \in {Undef, Null, Num(0), Str(""), Bool(FALSE)}

fromNullable_truthy(h, value) ==
    IF ~Falsy(value)
    THEN Ok(h, value)
    ELSE Error(h, ErrorObj("Value is null or undefined"))

fromNullable(h, value) ==
    IF value # Null /\ value # Undef
    THEN Ok(h, value)
    ELSE Error(h, ErrorObj("Value is null or undefined"))

fromPredicate_catches(h, value, predicate, error) ==
    LET p == Invoke(h, predicate, <<value>>)
    IN  IF p.thrown
        THEN [Error(p.heap, error) EXCEPT !.calls = p.calls]
        ELSE Then(p, IF Truthy(p.ret) THEN Ok(p.heap, value) ELSE Error(p.heap, error))

fromPredicate(h, value, predicate, error) ==
    LET p == Invoke(h, predicate, <<value>>)
    IN  Then(p, IF Truthy(p.ret) THEN Ok(p.heap, value) ELSE Error(p.heap, error))

RECURSIVE sequenceLoop(_, _, _, _)
sequenceLoop(h, eithers, i, results) ==
    IF i > Len(eithers)
    THEN Ok(h, Arr(results))
    ELSE IF isError(h, eithers[i])
         THEN LET e == getError(h, eithers[i])
              IN  Then(e, Error(e.heap, e.ret))
         ELSE LET v == getValue(h, eithers[i])
              IN  Then(v, sequenceLoop(h, eithers, i + 1, Append(results, v.ret)))

Reverse(list) == [i \in DOMAIN list |-> list[Len(list) + 1 - i]]

sequence_rightmost(h, eithers) == sequenceLoop(h, Reverse(eithers), 1, <<>>)

sequence(h, eithers) == sequenceLoop(h, eithers, 1, <<>>)

RECURSIVE partitionLoop(_, _, _, _, _)
partitionLoop(h, eithers, i, oks, errors) ==
    IF i > Len(eithers)
    THEN Return(h, Arr(<<Arr(oks), Arr(errors)>>), <<>>)
    ELSE IF isOk(h, eithers[i])
         THEN LET v == getValue(h, eithers[i])
              IN  Then(v, partitionLoop(h, eithers, i + 1, Append(oks, v.ret), errors))
         ELSE LET e == getError(h, eithers[i])
              IN  Then(e, partitionLoop(h, eithers, i + 1, oks, Append(errors, e.ret)))

partition_reversed(h, eithers) == partitionLoop(h, Reverse(eithers), 1, <<>>, <<>>)

partition(h, eithers) == partitionLoop(h, eithers, 1, <<>>, <<>>)

RECURSIVE traverseLoop(_, _, _, _, _)
traverseLoop(h, values, fn, i, results) ==
    IF i > Len(values)
    THEN Ok(h, Arr(results))
    ELSE LET either == Invoke(h, fn, <<values[i]>>)
         IN  Then(either,
                  IF isError(either.heap, either.ret.ref)
                  THEN LET e == getError(either.heap, either.ret.ref)
                       IN  Then(e, Error(e.heap, e.ret))
                  ELSE LET v == getValue(either.heap, either.ret.ref)
                       IN  Then(v, traverseLoop(v.heap, values, fn, i + 1,
                                                Append(results, v.ret))))

RECURSIVE mapLoop(_, _, _, _, _)
(* values.map(fn): fn on every element, from the left. *)
mapLoop(h, values, fn, i, results) ==
    IF i > Len(values)
    THEN Return(h, results, <<>>)
    ELSE LET either == Invoke(h, fn, <<values[i]>>)
         IN  Then(either, mapLoop(either.heap, values, fn, i + 1,
                                  Append(results, either.ret.ref)))

traverse_mapThenSequence(h, values, fn) ==
    LET mapped == mapLoop(h, values, fn, 1, <<>>)
    IN  Then(mapped, sequence(mapped.heap, mapped.ret))

traverse_rightToLeft(h, values, fn) == traverseLoop(h, Reverse(values), fn, 1, <<>>)

traverse(h, values, fn) == traverseLoop(h, values, fn, 1, <<>>)

sequenceAll_failFast(h, eithers) == sequence(h, eithers)

sequenceAll(h, eithers) ==
    LET p == partition(h, eithers)
    IN  Then(p, IF Len(p.ret.items[2].items) > 0
                THEN Error(p.heap, p.ret.items[2])
                ELSE Ok(p.heap, p.ret.items[1]))

-----------------------------------------------------------------------------
(* Wrapping of operations that may throw (either-types.ts). *)

RECURSIVE Contains(_, _)
(* v is, or holds at any depth, a value of runtime type tag. *)
Contains(v, tag) ==
    CASE v.t = tag      -> TRUE
      [] v.t = "array"  -> \E i \in DOMAIN v.items : Contains(v.items[i], tag)
      [] v.t = "object" -> \E i \in DOMAIN v.fields : Contains(v.fields[i].val, tag)
      [] OTHER          -> FALSE

Present(field) == field.val.t # "undefined"

RECURSIVE stringify(_, _)
RECURSIVE stringifyElements(_, _, _)
RECURSIVE stringifyMembers(_, _, _)
(* JSON.stringify(v, null, 2) of a value nested at the indentation indent:  *)
(* array elements and object members go one per line, two spaces deeper;    *)
(* a member whose value is undefined is left out, an undefined array        *)
(* element is written null, an Error has no enumerable property.            *)
stringify(v, indent) ==
    CASE v.t = "number"    -> ToString(v.n)
      [] v.t = "string"    -> "\"" \o v.s \o "\""
      [] v.t = "boolean"   -> IF v.b THEN "true" ELSE "false"
      [] v.t = "null"      -> "null"
      [] v.t = "undefined" -> "null"
      [] v.t = "Error"     -> "{}"
      [] v.t = "array"     ->
            IF v.items = <<>>
            THEN "[]"
            ELSE "[\n" \o stringifyElements(v.items, 1, indent \o "  ")
                       \o "\n" \o indent \o "]"
      [] v.t = "object"    ->
            LET members == SelectSeq(v.fields, Present)
            IN  IF members = <<>>
                THEN "{}"
                ELSE "{\n" \o stringifyMembers(members, 1, indent \o "  ")
                           \o "\n" \o indent \o "}"

stringifyElements(items, i, indent) ==
    indent \o stringify(items[i], indent)
           \o (IF i < Len(items)
               THEN ",\n" \o stringifyElements(items, i + 1, indent)
               ELSE "")

stringifyMembers(members, i, indent) ==
    indent \o "\"" \o members[i].key \o "\": " \o stringify(members[i].val, indent)
           \o (IF i < Len(members)
               THEN ",\n" \o stringifyMembers(members, i + 1, indent)
               ELSE "")

safeStringify_tolerant(h, data) ==
    IF Contains(data, "circular")
    THEN Return(h, Str("[Circular]"), <<>>)
    ELSE IF Contains(data, "bigint")
         THEN Throw(h, Construct("TypeError", "Do not know how to serialize a BigInt"), <<>>)
         ELSE Return(h, Str(stringify(data, "")), <<>>)

safeStringify(h, data) ==
    IF Contains(data, "circular")
    THEN Throw(h, Construct("TypeError", "Converting circular structure to JSON"), <<>>)
    ELSE IF Contains(data, "bigint")
         THEN Throw(h, Construct("TypeError", "Do not know how to serialize a BigInt"), <<>>)
         ELSE Return(h, Str(stringify(data, "")), <<>>)

(* String(v) of a primitive that is not a string. *)
String(v) ==
    CASE v.t = "undefined" -> "undefined"
      [] v.t = "null"      -> "null"
      [] v.t = "number"    -> ToString(v.n)
      [] v.t = "bigint"    -> ToString(v.n)
      [] v.t = "boolean"   -> IF v.b THEN "true" ELSE "false"

(* typeof v === 'object' && v !== null *)
IsObject(v) == v.t \in {"object", "array", "Error", "Either", "Promise"}

HasMessage(v) ==
    v.t = "object" /\ \E i \in DOMAIN v.fields : v.fields[i].key = "message"

MessageOf(v) ==
    v.fields[CHOOSE i \in DOMAIN v.fields : v.fields[i].key = "message"].val

extractErrorMessage_objectFirst(h, error) ==
    IF IsObject(error)
    THEN safeStringify(h, error)
    ELSE IF error.t = "string"
         THEN Return(h, error, <<>>)
         ELSE Return(h, Str(String(error)), <<>>)

extractErrorMessage_messageField(h, error) ==
    IF error.t = "Error"
    THEN Return(h, Str(error.message), <<>>)
    ELSE IF HasMessage(error)
         THEN Return(h, MessageOf(error), <<>>)
         ELSE IF error.t = "string"
              THEN Return(h, error, <<>>)
              ELSE IF IsObject(error)
                   THEN safeStringify(h, error)
                   ELSE Return(h, Str(String(error)), <<>>)

extractErrorMessage(h, error) ==
    IF error.t = "Error"
    THEN Return(h, Str(error.message), <<>>)
    ELSE IF error.t = "string"
         THEN Return(h, error, <<>>)
         ELSE IF IsObject(error)
              THEN safeStringify(h, error)
              ELSE Return(h, Str(String(error)), <<>>)

(* new ErrClass(msg) *)
NewErr(h, ErrClass, msg) ==
    Logged(ErrClass, <<msg>>, Return(h, Construct(ErrClass.name, msg.s), <<>>))

(* catch (error) { ... }: the block safeSync and safeAsync both end with. *)
catch(h, error, ErrClass) ==
    LET msg == extractErrorMessage(h, error)
        err == NewErr(msg.heap, ErrClass, msg.ret)
    IN  Then(msg, Then(err, Error(err.heap, err.ret)))

(* try { r } catch (error) { ... }: r is the outcome of the try block. *)
Try(r, ErrClass) ==
    IF r.thrown
    THEN LET c == catch(r.heap, r.ret, ErrClass)
         IN  [c EXCEPT !.calls = r.calls \o c.calls]
    ELSE r

safeSync_rethrows(h, fn, ErrClass) ==
    LET r == Invoke(h, fn, <<>>)
    IN  Then(r, Ok(r.heap, r.ret))

safeSync_flattens(h, fn, ErrClass) ==
    LET r == Invoke(h, fn, <<>>)
    IN  Try(IF ~r.thrown /\ r.ret.t = "Either"
            THEN r
            ELSE Then(r, Ok(r.heap, r.ret)),
            ErrClass)

safeSync(h, fn, ErrClass) ==
    LET r == Invoke(h, fn, <<>>)
    IN  Try(Then(r, Ok(r.heap, r.ret)), ErrClass)

(* The promise an async function returns, given the outcome of its body. *)
Settled(out) ==
    PromiseOf(IF out.thrown THEN "rejected" ELSE "fulfilled", out.ret)

(* safeAsync up to `await fn()`: the call of fn, and the catch block when   *)
(* fn throws before it returns a promise.                                   *)
safeAsync(h, fn, ErrClass) ==
    Try(Invoke(h, fn, <<>>), ErrClass)

safeAsyncResumed_wraps(h, awaited, ErrClass) ==
    Try(IF awaited.state = "rejected"
        THEN Throw(h, awaited.v, <<>>)
        ELSE Ok(h, awaited.v),
        ErrClass)

safeAsyncResumed_rejects(h, awaited, ErrClass) ==
    IF awaited.state = "rejected"
    THEN Throw(h, awaited.v, <<>>)
    ELSE IF awaited.v.t = "Either"
         THEN Return(h, awaited.v, <<>>)
         ELSE Ok(h, awaited.v)

(* safeAsync from `await fn()` on, once the promise fn returned settled. *)
safeAsyncResumed_sharedResult(h, awaited, ErrClass) ==
    Try(IF awaited.state = "rejected"
        THEN Throw(h, awaited.v, <<>>)
        ELSE IF awaited.v.t = "Either"
             THEN Return(h, awaited.v, <<>>)
             ELSE IF h = <<>>
                  THEN Ok(h, awaited.v)
                  ELSE Return([h EXCEPT ![Len(h)] = [value |-> awaited.v, error |-> Undef, _isOk |-> TRUE]],
                              Ref(Len(h)), <<>>),
        ErrClass)

safeAsyncResumed(h, awaited, ErrClass) ==
    Try(IF awaited.state = "rejected"
        THEN Throw(h, awaited.v, <<>>)
        ELSE IF awaited.v.t = "Either"
             THEN Return(h, awaited.v, <<>>)
             ELSE Ok(h, awaited.v),
        ErrClass)

-----------------------------------------------------------------------------
(* The inputs of the calls. *)

ValueFns == {Identity, Const(Null), Throws}

EitherFns(h) == {NewOk, NewError(Null), Throws} \cup {Existing(k) : k \in DOMAIN h}

Predicates == {IsNumber, Const(Bool(TRUE)), Const(Bool(FALSE)), Throws}

CombineFns == {Swapped, Const(Null), Throws}

RECURSIVE Ascending(_)
Ascending(S) ==
    IF S = {}
    THEN <<>>
    ELSE LET m == CHOOSE a \in S : \A b \in S : a <= b
         IN  <<m>> \o Ascending(S \ {m})

(* The lists of distinct instances, in the order they were built. *)
Lists(h) == {Ascending(S) : S \in SUBSET DOMAIN h}

Refs(eithers) == [i \in DOMAIN eithers |-> Ref(eithers[i])]

CircularObj == Obj(<<Field("message", Str("Circular")), Field("self", Circular)>>)

(* The values an operation throws, or rejects its promise with. *)
Thrown ==
    { ErrorObj("Function failed"),
      Str("String error"),
      Obj(<<Field("code", Num(500)), Field("message", Str("Server error"))>>),
      Arr(<<Num(1), Undef, Obj(<<>>)>>),
      CircularObj,
      Obj(<<Field("id", BigInt(1))>>),
      Null, Undef, Num(42), Bool(FALSE) }

ErrClasses == {ErrorClass("Error"), ErrorClass("CustomError")}

SyncOps(h) ==
    {Const(v) : v \in Payloads} \cup {Existing(k) : k \in DOMAIN h}
        \cup {ThrowsValue(t) : t \in Thrown}

AsyncOps(h) ==
    {Resolves(v) : v \in Payloads} \cup {Resolves(Ref(k)) : k \in DOMAIN h}
        \cup {Rejects(t) : t \in Thrown} \cup {ThrowsValue(t) : t \in Thrown}
        \cup {Stalls}

-----------------------------------------------------------------------------
(* The state machine: one step is one call made by the application, or the  *)
(* application taking the outcome of that call.                             *)
(*   heap  - the instances built so far                                     *)
(*   made  - for each instance, the factory call of the application that    *)
(*           built it, or "internal" when a method or a callback built it   *)
(*   last  - the call in progress: its name, receiver, arguments, outcome   *)
(*           and the number of instances that existed before it             *)
(*   chain - under SpecChain, the chain of transformations that starts at   *)
(*           Either.Error(e): its current end, its number of links, the     *)
(*           number of callbacks invoked along it (both counted up to       *)
(*           MaxChainHeap) and whether a link threw                         *)
(*   tasks - the safeAsync calls whose promise the application has not yet *)
(*           taken the result of                                            *)

Idle == [op |-> "none", self |-> 0, args |-> <<>>, pre |-> 0,
         ret |-> Undef, thrown |-> FALSE, calls |-> <<>>]

NoChain == [cur |-> 0, e |-> Undef, links |-> 0, invoked |-> 0, threw |-> FALSE]

Init ==
    /\ heap = <<>>
    /\ made = <<>>
    /\ last = Idle
    /\ chain = NoChain
    /\ tasks = <<>>

Commit(bound, op, x, args, out) ==
    /\ last = Idle
    /\ Len(out.heap) > Len(heap) => Len(heap) < bound
    /\ heap' = out.heap
    /\ made' = made \o [i \in 1..(Len(out.heap) - Len(heap)) |->
                          IF op \in {"Ok", "Error"}
                          THEN [factory |-> op, arg |-> args[1]]
                          ELSE [factory |-> "internal", arg |-> Undef]]
    /\ last' = [op |-> op, self |-> x, args |-> args, pre |-> Len(heap),
                ret |-> out.ret, thrown |-> out.thrown, calls |-> out.calls]
    /\ UNCHANGED tasks

(* The application takes the outcome of the call and goes on. *)
Continue ==
    /\ last # Idle
    /\ last' = Idle
    /\ UNCHANGED <<heap, made, chain, tasks>>

DoOk(bound) == \E v \in Payloads : Commit(bound, "Ok", 0, <<v>>, Ok(heap, v))

DoError(bound) == \E e \in Payloads : Commit(bound, "Error", 0, <<e>>, Error(heap, e))

DoMap(bound, x) ==
    \E fn \in ValueFns : Commit(bound, "map", x, <<fn>>, map(heap, x, fn))

DoFlatMap(bound, x) ==
    \E fn \in EitherFns(heap) : Commit(bound, "flatMap", x, <<fn>>, flatMap(heap, x, fn))

DoFind(bound, x) ==
    \E fn \in EitherFns(heap) : Commit(bound, "find", x, <<fn>>, find(heap, x, fn))

DoTap(bound, x) ==
    \E fn \in ValueFns : Commit(bound, "tap", x, <<fn>>, tap(heap, x, fn))

DoZip(bound, x) ==
    \E other \in DOMAIN heap :
        Commit(bound, "zip", x, <<Ref(other)>>, zip(heap, x, other))

DoZipWith(bound, x) ==
    \E other \in DOMAIN heap, fn \in CombineFns :
        Commit(bound, "zipWith", x, <<Ref(other), fn>>, zipWith(heap, x, other, fn))

-----------------------------------------------------------------------------
(* Spec: every factory, method and combinator, on every instance. *)

CallOk == DoOk(MaxHeap) /\ UNCHANGED chain

CallError == DoError(MaxHeap) /\ UNCHANGED chain

CallIsOk ==
    /\ \E x \in DOMAIN heap :
          Commit(MaxHeap, "isOk", x, <<>>, Return(heap, Bool(isOk(heap, x)), <<>>))
    /\ UNCHANGED chain

CallIsError ==
    /\ \E x \in DOMAIN heap :
          Commit(MaxHeap, "isError", x, <<>>,
                 Return(heap, Bool(isError(heap, x)), <<>>))
    /\ UNCHANGED chain

CallGetValue ==
    /\ \E x \in DOMAIN heap : Commit(MaxHeap, "getValue", x, <<>>, getValue(heap, x))
    /\ UNCHANGED chain

CallGetError ==
    /\ \E x \in DOMAIN heap : Commit(MaxHeap, "getError", x, <<>>, getError(heap, x))
    /\ UNCHANGED chain

CallGetOrElse ==
    /\ \E x \in DOMAIN heap, d \in Payloads :
          Commit(MaxHeap, "getOrElse", x, <<d>>, getOrElse(heap, x, d))
    /\ UNCHANGED chain

CallFold ==
    /\ \E x \in DOMAIN heap, fnError \in ValueFns, fnOk \in ValueFns :
          Commit(MaxHeap, "fold", x, <<fnError, fnOk>>, fold(heap, x, fnError, fnOk))
    /\ UNCHANGED chain

CallMap == (\E x \in DOMAIN heap : DoMap(MaxHeap, x)) /\ UNCHANGED chain

CallFlatMap == (\E x \in DOMAIN heap : DoFlatMap(MaxHeap, x)) /\ UNCHANGED chain

CallMapError ==
    /\ \E x \in DOMAIN heap, fn \in ValueFns :
          Commit(MaxHeap, "mapError", x, <<fn>>, mapError(heap, x, fn))
    /\ UNCHANGED chain

CallZip == (\E x \in DOMAIN heap : DoZip(MaxHeap, x)) /\ UNCHANGED chain

CallZipWith == (\E x \in DOMAIN heap : DoZipWith(MaxHeap, x)) /\ UNCHANGED chain

CallFilter ==
    /\ \E x \in DOMAIN heap, predicate \in Predicates, error \in Payloads :
          Commit(MaxHeap, "filter", x, <<predicate, error>>,
                 filter(heap, x, predicate, error))
    /\ UNCHANGED chain

CallFind == (\E x \in DOMAIN heap : DoFind(MaxHeap, x)) /\ UNCHANGED chain

CallToPromise ==
    /\ \E x \in DOMAIN heap : Commit(MaxHeap, "toPromise", x, <<>>, toPromise(heap, x))
    /\ UNCHANGED chain

CallToOptional ==
    /\ \E x \in DOMAIN heap : Commit(MaxHeap, "toOptional", x, <<>>, toOptional(heap, x))
    /\ UNCHANGED chain

CallSwap ==
    /\ \E x \in DOMAIN heap : Commit(MaxHeap, "swap", x, <<>>, swap(heap, x))
    /\ UNCHANGED chain

CallRecover ==
    /\ \E x \in DOMAIN heap, fn \in ValueFns :
          Commit(MaxHeap, "recover", x, <<fn>>, recover(heap, x, fn))
    /\ UNCHANGED chain

CallRecoverWith ==
    /\ \E x \in DOMAIN heap, fn \in EitherFns(heap) :
          Commit(MaxHeap, "recoverWith", x, <<fn>>, recoverWith(heap, x, fn))
    /\ UNCHANGED chain

CallTap == (\E x \in DOMAIN heap : DoTap(MaxHeap, x)) /\ UNCHANGED chain

CallTapError ==
    /\ \E x \in DOMAIN heap, fn \in ValueFns :
          Commit(MaxHeap, "tapError", x, <<fn>>, tapError(heap, x, fn))
    /\ UNCHANGED chain

CallSequence ==
    /\ \E eithers \in Lists(heap) :
          Commit(MaxHeap, "sequence", 0, Refs(eithers), sequence(heap, eithers))
    /\ UNCHANGED chain

CallPartition ==
    /\ \E eithers \in Lists(heap) :
          Commit(MaxHeap, "partition", 0, Refs(eithers), partition(heap, eithers))
    /\ UNCHANGED chain

CallSequenceAll ==
    /\ \E eithers \in Lists(heap) :
          Commit(MaxHeap, "sequenceAll", 0, Refs(eithers), sequenceAll(heap, eithers))
    /\ UNCHANGED chain

CallFromPredicate ==
    /\ \E value \in Payloads, predicate \in Predicates :
          Commit(MaxHeap, "fromPredicate", 0, <<value, predicate, Boom>>,
                 fromPredicate(heap, value, predicate, Boom))
    /\ UNCHANGED chain

(* traverse builds an instance for each value and one for its result: it is *)
(* called on lists that keep the number of instances within MaxHeap + 1.    *)
CallTraverse ==
    /\ \E n \in 0..(MaxHeap - Len(heap)) :
          \E values \in [1..n -> Payloads], fn \in {Parse, Throws} :
              Commit(MaxHeap, "traverse", 0, <<Arr(values), fn>>,
                     traverse(heap, values, fn))
    /\ UNCHANGED chain

Next ==
    \/ Continue
    \/ CallOk
    \/ CallError
    \/ CallIsOk
    \/ CallIsError
    \/ CallGetValue
    \/ CallGetError
    \/ CallGetOrElse
    \/ CallFold
    \/ CallMap
    \/ CallFlatMap
    \/ CallMapError
    \/ CallZip
    \/ CallZipWith
    \/ CallFilter
    \/ CallFind
    \/ CallToPromise
    \/ CallToOptional
    \/ CallSwap
    \/ CallRecover
    \/ CallRecoverWith
    \/ CallTap
    \/ CallTapError
    \/ CallSequence
    \/ CallPartition
    \/ CallSequenceAll
    \/ CallFromPredicate
    \/ CallTraverse

Spec == Init /\ [][Next]_vars

-----------------------------------------------------------------------------
(* SpecZip: the application builds instances and combines them in pairs. *)

PairOk == DoOk(MaxZipHeap) /\ UNCHANGED chain

PairError == DoError(MaxZipHeap) /\ UNCHANGED chain

PairZip == (\E x \in DOMAIN heap : DoZip(MaxZipHeap, x)) /\ UNCHANGED chain

PairZipWith == (\E x \in DOMAIN heap : DoZipWith(MaxZipHeap, x)) /\ UNCHANGED chain

NextZip ==
    \/ Continue
    \/ PairOk
    \/ PairError
    \/ PairZip
    \/ PairZipWith

SpecZip == Init /\ [][NextZip]_vars

-----------------------------------------------------------------------------
(* SpecChain: the application builds Either.Error(e) and applies map,       *)
(* flatMap, find, tap, zip and zipWith, each to the result of the previous  *)
(* one; the instances it zips with come from the factories.                 *)

UpTo(n, limit) == IF n > limit THEN limit ELSE n

Link ==
    chain' = [chain EXCEPT
                 !.cur = IF last'.thrown THEN @ ELSE last'.ret.ref,
                 !.links = UpTo(@ + 1, MaxChainHeap),
                 !.invoked = UpTo(@ + Len(last'.calls), MaxChainHeap),
                 !.threw = @ \/ last'.thrown]

ChainStart ==
    /\ chain = NoChain
    /\ DoError(MaxChainHeap)
    /\ chain' = [cur |-> last'.ret.ref, e |-> last'.args[1], links |-> 0,
                 invoked |-> 0, threw |-> FALSE]

ChainOk == DoOk(MaxChainHeap) /\ UNCHANGED chain

ChainError == chain # NoChain /\ DoError(MaxChainHeap) /\ UNCHANGED chain

ChainMap == chain # NoChain /\ DoMap(MaxChainHeap, chain.cur) /\ Link

ChainFlatMap == chain # NoChain /\ DoFlatMap(MaxChainHeap, chain.cur) /\ Link

ChainFind == chain # NoChain /\ DoFind(MaxChainHeap, chain.cur) /\ Link

ChainTap == chain # NoChain /\ DoTap(MaxChainHeap, chain.cur) /\ Link

ChainZip == chain # NoChain /\ DoZip(MaxChainHeap, chain.cur) /\ Link

ChainZipWith == chain # NoChain /\ DoZipWith(MaxChainHeap, chain.cur) /\ Link

NextChain ==
    \/ Continue
    \/ ChainStart
    \/ ChainOk
    \/ ChainError
    \/ ChainMap
    \/ ChainFlatMap
    \/ ChainFind
    \/ ChainTap
    \/ ChainZip
    \/ ChainZipWith

SpecChain == Init /\ [][NextChain]_vars

-----------------------------------------------------------------------------
(* Safe wrapping: the factories, safeSync, and safeAsync calls the          *)
(* application awaits one at a time.  A safeAsync call is a task: it runs   *)
(* up to its await when it is called, the promise of its operation settles  *)
(* at some later time or never, the task is then resumed, and the           *)
(* application takes the result of the promise the call returned.           *)

SafeOk == tasks = <<>> /\ DoOk(MaxSafeHeap) /\ UNCHANGED chain

SafeError == tasks = <<>> /\ DoError(MaxSafeHeap) /\ UNCHANGED chain

CallSafeSync ==
    /\ tasks = <<>>
    /\ \E fn \in SyncOps(heap), ErrClass \in ErrClasses :
          Commit(MaxSafeHeap + 1, "safeSync", 0, <<fn, ErrClass>>,
                 safeSync(heap, fn, ErrClass))
    /\ UNCHANGED chain

Internal(n) == [i \in 1..n |-> [factory |-> "internal", arg |-> Undef]]

(* A safeAsync call builds an instance, now or when it is resumed, unless  *)
(* its operation resolves to an Either or never settles.                    *)
DoSafeAsync(bound) ==
    /\ last = Idle
    /\ tasks = <<>>
    /\ \E fn \in AsyncOps(heap), ErrClass \in ErrClasses :
          /\ \/ Len(heap) < bound
             \/ fn.kind = "resolves" /\ fn.v.t = "Either"
             \/ fn.kind = "stalls"
          /\ LET out == safeAsync(heap, fn, ErrClass)
                 finished == out.calls[1].thrown
             IN  /\ heap' = out.heap
                 /\ made' = made \o Internal(Len(out.heap) - Len(heap))
                 /\ tasks' = <<[fn |-> fn, ErrClass |-> ErrClass, pre |-> Len(heap),
                                phase |-> IF finished THEN "done" ELSE "awaiting",
                                awaited |-> PromiseOf("pending", Undef),
                                promise |-> IF finished
                                            THEN Settled(out)
                                            ELSE PromiseOf("pending", Undef),
                                calls |-> out.calls]>>
    /\ UNCHANGED <<last, chain>>

CallSafeAsync == DoSafeAsync(MaxSafeHeap + 1)

(* The promise the operation returned is fulfilled or rejected. *)
Settle ==
    /\ \E i \in DOMAIN tasks :
          /\ tasks[i].phase = "awaiting"
          /\ tasks[i].fn.kind \in {"resolves", "rejects"}
          /\ tasks' = [tasks EXCEPT
                          ![i].phase = "ready",
                          ![i].awaited = IF tasks[i].fn.kind = "resolves"
                                         THEN PromiseOf("fulfilled", tasks[i].fn.v)
                                         ELSE PromiseOf("rejected", tasks[i].fn.reason)]
    /\ UNCHANGED <<heap, made, last, chain>>

(* The task goes on after its await and runs to its end. *)
Resume ==
    /\ \E i \in DOMAIN tasks :
          /\ tasks[i].phase = "ready"
          /\ LET out == safeAsyncResumed(heap, tasks[i].awaited, tasks[i].ErrClass)
             IN  /\ heap' = out.heap
                 /\ made' = made \o Internal(Len(out.heap) - Len(heap))
                 /\ tasks' = [tasks EXCEPT
                                 ![i].phase = "done",
                                 ![i].promise = Settled(out),
                                 ![i].calls = @ \o out.calls]
    /\ UNCHANGED <<last, chain>>

(* The application takes the result of the promise safeAsync returned. *)
Await ==
    /\ last = Idle
    /\ \E i \in DOMAIN tasks :
          /\ tasks[i].phase = "done"
          /\ last' = [op |-> "safeAsync", self |-> 0,
                      args |-> <<tasks[i].fn, tasks[i].ErrClass>>,
                      pre |-> tasks[i].pre,
                      ret |-> tasks[i].promise.v,
                      thrown |-> tasks[i].promise.state = "rejected",
                      calls |-> tasks[i].calls]
          /\ tasks' = SubSeq(tasks, 1, i - 1) \o SubSeq(tasks, i + 1, Len(tasks))
    /\ UNCHANGED <<heap, made, chain>>

NextSafe ==
    \/ Continue
    \/ SafeOk
    \/ SafeError
    \/ CallSafeSync
    \/ CallSafeAsync
    \/ Settle
    \/ Resume
    \/ Await

SpecSafe == Init /\ [][NextSafe]_vars

(* safeAsync alone.  A task whose await can go on does go on: the engine   *)
(* runs the continuation of a settled await once the running code is done.  *)
AsyncOk == tasks = <<>> /\ DoOk(MaxAsyncHeap) /\ UNCHANGED chain

AsyncError == tasks = <<>> /\ DoError(MaxAsyncHeap) /\ UNCHANGED chain

StartSafeAsync == DoSafeAsync(MaxAsyncHeap)

NextAsync ==
    \/ Continue
    \/ AsyncOk
    \/ AsyncError
    \/ StartSafeAsync
    \/ Settle
    \/ Resume
    \/ Await

SpecAsync == Init /\ [][NextAsync]_vars /\ WF_vars(Resume)

-----------------------------------------------------------------------------
(* SpecConcurrent: safeAsync calls made while earlier ones are in flight.   *)
(* The operations' promises settle in any order, and each task is resumed   *)
(* on its own.                                                              *)

ConcurrentOps(h) ==
    { Resolves(Num(1)), Rejects(Str("String error")), Rejects(CircularObj),
      ThrowsValue(ErrorObj("Function failed")), Stalls }
        \cup {Resolves(Ref(k)) : k \in DOMAIN h}

StartConcurrent ==
    /\ last = Idle
    /\ Len(heap) + Len(tasks) < MaxConcurrent
    /\ \E fn \in ConcurrentOps(heap), ErrClass \in ErrClasses :
          LET out == safeAsync(heap, fn, ErrClass)
              finished == out.calls[1].thrown
          IN  /\ heap' = out.heap
              /\ made' = made \o Internal(Len(out.heap) - Len(heap))
              /\ tasks' = Append(tasks,
                                 [fn |-> fn, ErrClass |-> ErrClass, pre |-> Len(heap),
                                  phase |-> IF finished THEN "done" ELSE "awaiting",
                                  awaited |-> PromiseOf("pending", Undef),
                                  promise |-> IF finished
                                              THEN Settled(out)
                                              ELSE PromiseOf("pending", Undef),
                                  calls |-> out.calls])
    /\ UNCHANGED <<last, chain>>

NextConcurrent ==
    \/ Continue
    \/ StartConcurrent
    \/ Settle
    \/ Resume
    \/ Await

SpecConcurrent == Init /\ [][NextConcurrent]_vars

-----------------------------------------------------------------------------
(* SpecLift: the functions that lift a plain value into an Either. *)

Nullables == {Null, Undef, Num(0), Str(""), Bool(FALSE), Num(42)}

LiftFromNullable ==
    /\ \E value \in Nullables :
          Commit(MaxLiftHeap, "fromNullable", 0, <<value>>, fromNullable(heap, value))
    /\ UNCHANGED chain

LiftFromPredicate ==
    /\ \E value \in Nullables, predicate \in Predicates :
          Commit(MaxLiftHeap, "fromPredicate", 0,
                 <<value, predicate, ErrorObj("Too small")>>,
                 fromPredicate(heap, value, predicate, ErrorObj("Too small")))
    /\ UNCHANGED chain

NextLift ==
    \/ Continue
    \/ LiftFromNullable
    \/ LiftFromPredicate

SpecLift == Init /\ [][NextLift]_vars

-----------------------------------------------------------------------------
(* SpecList: the combinators over lists of instances, on the lists of the   *)
(* instances the application built with the factories, in any order and     *)
(* with repetitions.                                                        *)

Sequences(S, n) == UNION {[1..k -> S] : k \in 0..n}

FactoryBuilt == {i \in DOMAIN heap : made[i].factory \in {"Ok", "Error"}}

ListOk == DoOk(MaxListHeap) /\ UNCHANGED chain

ListError == DoError(MaxListHeap) /\ UNCHANGED chain

ListSequence ==
    /\ \E eithers \in Sequences(FactoryBuilt, MaxListHeap + 1) :
          Commit(MaxListHeap + 1, "sequence", 0, Refs(eithers), sequence(heap, eithers))
    /\ UNCHANGED chain

ListPartition ==
    /\ Len(heap) <= MaxListHeap
    /\ \E eithers \in Sequences(FactoryBuilt, MaxListHeap + 1) :
          Commit(MaxListHeap + 1, "partition", 0, Refs(eithers), partition(heap, eithers))
    /\ UNCHANGED chain

ListSequenceAll ==
    /\ \E eithers \in Sequences(FactoryBuilt, MaxListHeap + 1) :
          Commit(MaxListHeap + 1, "sequenceAll", 0, Refs(eithers), sequenceAll(heap, eithers))
    /\ UNCHANGED chain

NextList ==
    \/ Continue
    \/ ListOk
    \/ ListError
    \/ ListSequence
    \/ ListPartition
    \/ ListSequenceAll

SpecList == Init /\ [][NextList]_vars

-----------------------------------------------------------------------------
(* SpecTraverse: traverse on lists of plain values. *)

TraverseValues == {Num(1), Str("a"), Str("b"), Undef}

TraverseFns == {Parse, NewOk, NewError(Null), Throws}

CallTraverseOn(bound, len) ==
    /\ Len(heap) < bound
    /\ \E values \in Sequences(TraverseValues, len), fn \in TraverseFns :
          Commit(bound, "traverse", 0, <<Arr(values), fn>>, traverse(heap, values, fn))

TraverseList == CallTraverseOn(MaxTraverseHeap, MaxTraverseLen) /\ UNCHANGED chain

NextTraverse ==
    \/ Continue
    \/ TraverseList

SpecTraverse == Init /\ [][NextTraverse]_vars

-----------------------------------------------------------------------------
(* SpecFunctor: map with total functions and their compositions. *)

TotalFns == {Identity, IsNumber, Boxed}

ComposedFns == {Compose(f, g) : f \in TotalFns, g \in TotalFns}

FunctorOk == DoOk(MaxFunctorHeap) /\ UNCHANGED chain

FunctorMap ==
    /\ \E x \in DOMAIN heap, fn \in TotalFns \cup ComposedFns :
          Commit(MaxFunctorHeap, "map", x, <<fn>>, map(heap, x, fn))
    /\ UNCHANGED chain

NextFunctor ==
    \/ Continue
    \/ FunctorOk
    \/ FunctorMap

SpecFunctor == Init /\ [][NextFunctor]_vars

-----------------------------------------------------------------------------
(* Vocabulary of the properties. *)

Success(i) == isOk(heap, i) /\ ~isError(heap, i)

Failure(i) == isError(heap, i) /\ ~isOk(heap, i)

(* The call returned an instance that did not exist before the call. *)
ReturnedNew == ~last.thrown /\ last.ret.t = "Either" /\ last.ret.ref > last.pre

ReturnedNewSuccess(v) ==
    ReturnedNew /\ Success(last.ret.ref) /\ heap[last.ret.ref].value = v

ReturnedNewFailure(e) ==
    ReturnedNew /\ Failure(last.ret.ref) /\ heap[last.ret.ref].error = e

(* The call invoked fn exactly once, on args, and no other callback. *)
InvokedOnce(fn, args) ==
    /\ Len(last.calls) = 1
    /\ last.calls[1].fn = fn
    /\ last.calls[1].args = args

(* A callback that threw makes the call throw what it threw. *)
Propagated ==
    last.thrown = last.calls[1].thrown /\ (last.thrown => last.ret = last.calls[1].ret)

-----------------------------------------------------------------------------
C3_InstancesNeverChange ==
    [][\A i \in DOMAIN heap : i \in DOMAIN heap' /\ heap'[i] = heap[i]]_vars

C3_Witness ==
    /\ last.op = "map"
    /\ ReturnedNew
    /\ made[last.self].factory = "Ok"
    /\ heap[last.self].value # heap[last.ret.ref].value

(* C4: getValue() returns the success payload of a success instance and     *)
(* throws an error with message "Cannot access value in a non-Ok instance"  *)
(* on a failure instance; getError() returns the failure payload of a       *)
(* failure instance and throws an error with message "Cannot access error   *)
(* in a non-Error instance" on a success instance.                          *)
C4_Extraction ==
    /\ last.op = "getValue" =>
          IF heap[last.self]._isOk
          THEN ~last.thrown /\ last.ret = heap[last.self].value
          ELSE /\ last.thrown
               /\ last.ret = ErrorObj("Cannot access value in a non-Ok instance")
    /\ last.op = "getError" =>
          IF ~heap[last.self]._isOk
          THEN ~last.thrown /\ last.ret = heap[last.self].error
          ELSE /\ last.thrown
               /\ last.ret = ErrorObj("Cannot access error in a non-Error instance")

C4_Witness ==
    last.op = "getError" /\ last.thrown /\ made[last.self].factory = "Ok"

(* C5: map(fn) on a success instance holding v invokes fn exactly once, on  *)
(* v, and returns a new success instance holding what fn returned; on a     *)
(* failure instance holding e it does not invoke fn and returns a failure   *)
(* holding e.                                                               *)
C5_Map ==
    last.op = "map" =>
        IF heap[last.self]._isOk
        THEN /\ InvokedOnce(last.args[1], <<heap[last.self].value>>)
             /\ Propagated
             /\ ~last.thrown => ReturnedNewSuccess(last.calls[1].ret)
        ELSE /\ last.calls = <<>>
             /\ ReturnedNewFailure(heap[last.self].error)

C5_Witness ==
    /\ last.op = "map"
    /\ heap[last.self]._isOk
    /\ last.args[1] = Const(Null)
    /\ heap[last.self].value = Num(1)
    /\ ReturnedNewSuccess(Null)

(* C6: flatMap(fn) on a success instance holding v invokes fn exactly once, *)
(* on v, and returns the very Either fn returned, not a wrapper of it; on   *)
(* a failure instance holding e it never invokes fn and returns a failure   *)
(* holding e.                                                               *)
C6_FlatMap ==
    last.op = "flatMap" =>
        IF heap[last.self]._isOk
        THEN /\ InvokedOnce(last.args[1], <<heap[last.self].value>>)
             /\ Propagated
             /\ ~last.thrown => last.ret = last.calls[1].ret /\ last.ret.t = "Either"
        ELSE /\ last.calls = <<>>
             /\ ReturnedNewFailure(heap[last.self].error)

C6_Witness ==
    /\ last.op = "flatMap"
    /\ heap[last.self]._isOk
    /\ last.args[1].kind = "existing"
    /\ last.args[1].k # last.self
    /\ last.ret = Ref(last.args[1].k)

(* C7: from Either.Error(e), after any chain of map, flatMap, find, tap,    *)
(* zip and zipWith calls, each made on the result of the previous one, the  *)
(* result is a failure instance holding e, no callback was invoked and no   *)
(* call threw.                                                              *)
C7_FailurePropagates ==
    chain # NoChain =>
        /\ Failure(chain.cur)
        /\ heap[chain.cur].error = chain.e
        /\ chain.invoked = 0
        /\ ~chain.threw

C7_Witness ==
    /\ chain.links >= 2
    /\ last.op = "zipWith"
    /\ last.self # chain.cur
    /\ Failure(last.args[1].ref)
    /\ heap[last.args[1].ref].error # chain.e
    /\ last.args[2] = Throws

(* C8: zip(other) returns a new success holding the pair [thisValue,        *)
(* otherValue] when both are successes; a failure holding this's payload    *)
(* when this is a failure, whatever other is; a failure holding other's     *)
(* payload when this is a success and other a failure.                      *)
C8_Zip ==
    last.op = "zip" =>
        LET x == last.self
            other == last.args[1].ref
        IN  /\ last.calls = <<>>
            /\ IF ~heap[x]._isOk
               THEN ReturnedNewFailure(heap[x].error)
               ELSE IF ~heap[other]._isOk
                    THEN ReturnedNewFailure(heap[other].error)
                    ELSE ReturnedNewSuccess(Arr(<<heap[x].value, heap[other].value>>))

C8_Witness ==
    /\ last.op = "zip"
    /\ ~heap[last.self]._isOk
    /\ ~heap[last.args[1].ref]._isOk
    /\ heap[last.self].error # heap[last.args[1].ref].error
    /\ ReturnedNew

(* What zip(other).map(pair => combine(pair[0], pair[1])) does from the     *)
(* instances that existed before the call.                                  *)
ZipThenMap(x, other, combine) ==
    LET zipped == zip(SubSeq(heap, 1, last.pre), x, other)
    IN  Then(zipped, map(zipped.heap, zipped.ret.ref, Spread(combine)))

(* C9: a.zipWith(b, combine) gives what a.zip(b).map(pair =>                *)
(* combine(pair[0], pair[1])) gives: combine is invoked exactly once, on    *)
(* the two payloads, when both are successes, and not at all when either is *)
(* a failure, and the failure returned is a's when a is a failure, b's      *)
(* otherwise.                                                               *)
C9_ZipWith ==
    last.op = "zipWith" =>
        LET x == last.self
            other == last.args[1].ref
            combine == last.args[2]
            expected == ZipThenMap(x, other, combine)
        IN  /\ last.thrown = expected.thrown
            /\ last.calls = expected.calls
            /\ last.thrown => last.ret = expected.ret
            /\ ~last.thrown =>
                  /\ ReturnedNew
                  /\ heap[last.ret.ref] = expected.heap[expected.ret.ref]
            /\ IF heap[x]._isOk /\ heap[other]._isOk
               THEN /\ InvokedOnce(combine, <<heap[x].value, heap[other].value>>)
                    /\ Propagated
                    /\ ~last.thrown => ReturnedNewSuccess(last.calls[1].ret)
               ELSE /\ last.calls = <<>>
                    /\ ReturnedNewFailure(IF ~heap[x]._isOk
                                          THEN heap[x].error
                                          ELSE heap[other].error)

C9_Witness ==
    /\ last.op = "zipWith"
    /\ heap[last.self]._isOk
    /\ heap[last.args[1].ref]._isOk
    /\ heap[last.self].value # heap[last.args[1].ref].value
    /\ last.args[2] = Swapped
    /\ ReturnedNewSuccess(Arr(<<heap[last.args[1].ref].value, heap[last.self].value>>))

(* C10: filter(predicate, errorIfFails) returns the same instance when the  *)
(* instance is a success whose value satisfies predicate; a failure holding *)
(* errorIfFails when it is a success whose value does not; and, on a        *)
(* failure instance, a failure holding errorIfFails, not the original       *)
(* payload, without invoking predicate.                                     *)
C10_Filter ==
    last.op = "filter" =>
        LET x == last.self
            predicate == last.args[1]
            errorIfFails == last.args[2]
        IN  IF heap[x]._isOk
            THEN /\ InvokedOnce(predicate, <<heap[x].value>>)
                 /\ Propagated
                 /\ ~last.thrown =>
                       IF last.calls[1].ret = Bool(TRUE)
                       THEN last.ret = Ref(x) /\ Len(heap) = last.pre
                       ELSE ReturnedNewFailure(errorIfFails)
            ELSE /\ last.calls = <<>>
                 /\ ReturnedNewFailure(errorIfFails)

C10_Witness ==
    /\ last.op = "filter"
    /\ ~heap[last.self]._isOk
    /\ heap[last.self].error # last.args[2]
    /\ ReturnedNewFailure(last.args[2])


(* The call returned a success instance holding v. *)
ReturnedSuccess(v) ==
    /\ ~last.thrown
    /\ last.ret.t = "Either"
    /\ Success(last.ret.ref)
    /\ heap[last.ret.ref].value = v

(* The call invoked no callback and returned the instance it was made on. *)
ReturnedSelfUntouched ==
    last.calls = <<>> /\ ~last.thrown /\ last.ret = Ref(last.self)

(* C11: recover(fn) never returns a failure instance: on a failure holding  *)
(* e it returns a success holding fn(e), on a success holding v it returns  *)
(* a success holding v without invoking fn.                                 *)
C11_Recover ==
    last.op = "recover" =>
        /\ ~last.thrown => last.ret.t = "Either" /\ Success(last.ret.ref)
        /\ IF Failure(last.self)
           THEN /\ InvokedOnce(last.args[1], <<heap[last.self].error>>)
                /\ Propagated
                /\ ~last.thrown => ReturnedSuccess(last.calls[1].ret)
           ELSE /\ last.calls = <<>>
                /\ ReturnedSuccess(heap[last.self].value)

C11_Witness ==
    /\ last.op = "recover"
    /\ Failure(last.self)
    /\ heap[last.self].error = Num(1)
    /\ last.args[1] = Identity
    /\ ReturnedSuccess(Num(1))

(* C12: recoverWith(fn) on a failure holding e invokes fn exactly once, on  *)
(* e, and returns the very Either fn returned, success or failure; on a     *)
(* success it returns the same instance and does not invoke fn.             *)
C12_RecoverWith ==
    last.op = "recoverWith" =>
        IF Failure(last.self)
        THEN /\ InvokedOnce(last.args[1], <<heap[last.self].error>>)
             /\ Propagated
             /\ ~last.thrown => last.ret = last.calls[1].ret /\ last.ret.t = "Either"
             /\ Len(heap) = last.pre + (IF ReturnedNew THEN 1 ELSE 0)
        ELSE /\ ReturnedSelfUntouched
             /\ Len(heap) = last.pre

C12_Witness ==
    /\ last.op = "recoverWith"
    /\ Failure(last.self)
    /\ heap[last.self].error = Num(1)
    /\ last.args[1] = NewError(Null)
    /\ ReturnedNewFailure(Null)

(* C13: tap(fn) invokes fn once, on the value, on a success and not at all  *)
(* on a failure; tapError(fn) invokes fn once, on the error, on a failure   *)
(* and not at all on a success; when fn does not throw the call returns the *)
(* instance it was made on, whatever fn returned.                           *)
C13_Tap ==
    /\ last.op = "tap" =>
          IF Success(last.self)
          THEN /\ InvokedOnce(last.args[1], <<heap[last.self].value>>)
               /\ Propagated
               /\ ~last.thrown => last.ret = Ref(last.self)
          ELSE ReturnedSelfUntouched
    /\ last.op = "tapError" =>
          IF Failure(last.self)
          THEN /\ InvokedOnce(last.args[1], <<heap[last.self].error>>)
               /\ Propagated
               /\ ~last.thrown => last.ret = Ref(last.self)
          ELSE ReturnedSelfUntouched
    /\ last.op \in {"tap", "tapError"} => Len(heap) = last.pre

C13_Witness ==
    /\ last.op = "tap"
    /\ Success(last.self)
    /\ heap[last.self].value = Num(1)
    /\ InvokedOnce(Const(Null), <<Num(1)>>)
    /\ last.ret = Ref(last.self)

(* C14: fold invokes exactly one handler, once: fnOk on the value of a      *)
(* success, fnError on the error of a failure, and returns what the handler *)
(* returned; every instance is in exactly one of the two states.            *)
C14_Fold ==
    /\ \A i \in DOMAIN heap : Success(i) # Failure(i)
    /\ last.op = "fold" =>
          /\ IF Success(last.self)
             THEN InvokedOnce(last.args[2], <<heap[last.self].value>>)
             ELSE InvokedOnce(last.args[1], <<heap[last.self].error>>)
          /\ Propagated
          /\ ~last.thrown => last.ret = last.calls[1].ret
          /\ Len(heap) = last.pre

C14_Witness ==
    /\ last.op = "fold"
    /\ made[last.self] = [factory |-> "Ok", arg |-> Undef]
    /\ last.args = <<Const(Null), Identity>>
    /\ InvokedOnce(Identity, <<Undef>>)
    /\ ~last.thrown
    /\ last.ret = Undef

-----------------------------------------------------------------------------
(* Vocabulary of the safe-wrapping properties: last is a safeSync call, or  *)
(* a safeAsync call whose promise the application took the result of (then  *)
(* last.thrown says the promise was rejected, with last.ret).               *)

SafeCall == last.op \in {"safeSync", "safeAsync"}

(* The operation threw, or the promise it returned was rejected. *)
Caught ==
    last.calls[1].thrown \/ (last.op = "safeAsync" /\ last.args[1].kind = "rejects")

CaughtValue ==
    IF last.calls[1].thrown THEN last.calls[1].ret ELSE last.args[1].reason

IsConstruction(call) == call.fn.kind = "construct"

Constructions == SelectSeq(last.calls, IsConstruction)

OperationRan(call) == call.fn.kind # "construct"

OperationRuns == SelectSeq(last.calls, OperationRan)

Cyclic(v) == v.t \in {"object", "array"} /\ Contains(v, "circular")

(* JSON.stringify rejects v. *)
Unserializable(v) ==
    v.t \in {"object", "array"} /\ (Contains(v, "circular") \/ Contains(v, "bigint"))

(* The message of a caught value, by the first rule that matches. *)
RuleMessage(v) ==
    CASE v.t = "Error"               -> v.message
      [] v.t = "string"              -> v.s
      [] v.t \in {"object", "array"} -> stringify(v, "")
      [] OTHER                       -> String(v)

(* The call returned a new failure holding an instance the supplied class   *)
(* built from message, in its only construction.                            *)
FailedWith(message) ==
    /\ Len(Constructions) = 1
    /\ Constructions[1].fn = last.args[2]
    /\ Constructions[1].args = <<Str(message)>>
    /\ Constructions[1].ret = Construct(last.args[2].name, message)
    /\ ReturnedNewFailure(Constructions[1].ret)

SafeSyncRunsOnce ==
    /\ Len(OperationRuns) = 1
    /\ last.calls[1] = OperationRuns[1]
    /\ last.calls[1].fn = last.args[1]
    /\ last.calls[1].args = <<>>

(* C15 as stated: safeSync runs the operation once; a returned r gives a    *)
(* success holding r; any thrown t other than a cyclic object gives a       *)
(* failure holding what the supplied class built from the message of t.     *)
C15_SafeSyncCatchesAllButCyclic ==
    last.op = "safeSync" =>
        /\ SafeSyncRunsOnce
        /\ ~Caught => ReturnedNewSuccess(last.calls[1].ret) /\ Constructions = <<>>
        /\ Caught /\ ~Cyclic(CaughtValue) => FailedWith(RuleMessage(CaughtValue))

(* C15: safeSync runs the operation once; a returned r gives a success      *)
(* holding r; a thrown t that JSON.stringify does not reject (t is not an   *)
(* object that is cyclic or holds a BigInt) gives a failure holding what    *)
(* the supplied class built from the message of t, and nothing is thrown.   *)
C15_SafeSync ==
    last.op = "safeSync" =>
        /\ SafeSyncRunsOnce
        /\ ~Caught => ReturnedNewSuccess(last.calls[1].ret) /\ Constructions = <<>>
        /\ Caught /\ ~Unserializable(CaughtValue) => FailedWith(RuleMessage(CaughtValue))

C15_Witness ==
    /\ last.op = "safeSync"
    /\ last.args = <<ThrowsValue(Str("String error")), ErrorClass("CustomError")>>
    /\ ReturnedNewFailure(Construct("CustomError", "String error"))

(* C16: under safeSync and safeAsync alike, the message handed to the       *)
(* error class for a caught v is v.message for an Error, else v itself for  *)
(* a string, else the indented serialization for an object, else String(v). *)
C16_MessageRules ==
    SafeCall /\ Caught =>
        \A i \in DOMAIN Constructions :
            Constructions[i].args =
                <<Str(CASE CaughtValue.t = "Error"  -> CaughtValue.message
                        [] CaughtValue.t = "string" -> CaughtValue.s
                        [] CaughtValue.t \in {"object", "array"} -> stringify(CaughtValue, "")
                        [] CaughtValue = Null       -> "null"
                        [] CaughtValue = Undef      -> "undefined"
                        [] CaughtValue = Num(42)    -> "42"
                        [] CaughtValue = Bool(FALSE) -> "false")>>

C16_Witness ==
    /\ last.op = "safeAsync"
    /\ last.args[1] = Rejects(Arr(<<Num(1), Undef, Obj(<<>>)>>))
    /\ Len(Constructions) = 1
    /\ Constructions[1].args = <<Str("[\n  1,\n  null,\n  {}\n]")>>

C18_CyclicPropagates ==
    SafeCall /\ Caught /\ Cyclic(CaughtValue) =>
        /\ last.thrown
        /\ last.ret = Construct("TypeError", "Converting circular structure to JSON")
        /\ Constructions = <<>>
        /\ Len(heap) = last.pre

C18_Witness ==
    /\ last.op = "safeAsync"
    /\ last.args[1] = Rejects(CircularObj)
    /\ last.thrown
    /\ last.ret.class = "TypeError"

(* The promise safeAsync returned is fulfilled with an Either. *)
Resolved(task) ==
    task.promise.state = "fulfilled" /\ task.promise.v.t = "Either"

(* The operation resolves, or throws or rejects with a value of which the   *)
(* message can be extracted.                                                *)
Normalizable(fn) ==
    \/ fn.kind = "resolves"
    \/ fn.kind = "rejects" /\ ~Unserializable(fn.reason)
    \/ fn.kind = "throwsValue" /\ ~Unserializable(fn.value)

(* C19 as stated: whenever the operation settles or throws, whatever the    *)
(* value, the promise of safeAsync is eventually fulfilled with an Either   *)
(* and is never rejected.                                                   *)
C19_AlwaysResolves ==
    /\ [](\A i \in DOMAIN tasks : tasks[i].phase = "done" => Resolved(tasks[i]))
    /\ (\E i \in DOMAIN tasks : tasks[i].phase = "ready")
          ~> (\E i \in DOMAIN tasks : tasks[i].phase = "done" /\ Resolved(tasks[i]))

(* C19: whenever the operation resolves, or rejects or throws with a value  *)
(* JSON.stringify does not reject, the promise of safeAsync is eventually   *)
(* fulfilled with an Either and is never rejected.                          *)
C19_ResolvesWhenNormalizable ==
    /\ [](\A i \in DOMAIN tasks :
             tasks[i].phase = "done" /\ Normalizable(tasks[i].fn) => Resolved(tasks[i]))
    /\ (\E i \in DOMAIN tasks : tasks[i].phase = "ready" /\ Normalizable(tasks[i].fn))
          ~> (\E i \in DOMAIN tasks : tasks[i].phase = "done" /\ Resolved(tasks[i]))

C19_Witness ==
    \E i \in DOMAIN tasks :
        /\ tasks[i].fn = Rejects(Null)
        /\ tasks[i].phase = "done"
        /\ Resolved(tasks[i])
        /\ Failure(tasks[i].promise.v.ref)
        /\ heap[tasks[i].promise.v.ref].error.message = "null"

(* C20: when the operation resolves to an Either, safeAsync resolves to     *)
(* that very instance, builds nothing and does not invoke the error class;  *)
(* when it resolves to any other r, safeAsync resolves to a new success     *)
(* holding r.                                                               *)
C20_SafeAsyncFlattens ==
    last.op = "safeAsync" /\ last.args[1].kind = "resolves" =>
        /\ Len(last.calls) = 1
        /\ IF last.args[1].v.t = "Either"
           THEN /\ ~last.thrown
                /\ last.ret = last.args[1].v
                /\ Len(heap) = last.pre
           ELSE ReturnedNewSuccess(last.args[1].v)

C20_Witness ==
    /\ last.op = "safeAsync"
    /\ last.args[1] = Resolves(Ref(1))
    /\ Failure(1)
    /\ ~last.thrown
    /\ last.ret = Ref(1)
    /\ Len(heap) = 1

(* C21: fromNullable(value) returns a success holding value for every value *)
(* other than null and undefined, the falsy 0, '' and false included, and   *)
(* a failure holding an Error with the message "Value is null or undefined" *)
(* exactly for null and undefined.                                          *)
C21_FromNullable ==
    last.op = "fromNullable" =>
        /\ last.calls = <<>>
        /\ IF last.args[1] \in {Null, Undef}
           THEN ReturnedNewFailure(Construct("Error", "Value is null or undefined"))
           ELSE ReturnedNewSuccess(last.args[1])

C21_Witness ==
    /\ last.op = "fromNullable"
    /\ last.args[1] = Num(0)
    /\ ReturnedNewSuccess(Num(0))

-----------------------------------------------------------------------------
(* Vocabulary of the list properties: last.args is the list the combinator  *)
(* was called on.                                                           *)

IsFailure(ref) == Failure(ref.ref)

IsSuccess(ref) == Success(ref.ref)

ValueOf(ref) == heap[ref.ref].value

ErrorOf(ref) == heap[ref.ref].error

(* The payloads of the successes, and of the failures, in input order. *)
OkPayloads ==
    LET oks == SelectSeq(last.args, IsSuccess)
    IN  [i \in DOMAIN oks |-> ValueOf(oks[i])]

ErrorPayloads ==
    LET errors == SelectSeq(last.args, IsFailure)
    IN  [i \in DOMAIN errors |-> ErrorOf(errors[i])]

Leftmost(S) == CHOOSE i \in S : \A j \in S : i <= j

FailureIndexes == {i \in DOMAIN last.args : IsFailure(last.args[i])}

(* C22: sequence(list) returns a failure holding the payload of the         *)
(* leftmost failure of the list when there is one, else a success holding   *)
(* the payloads of the list, in input order and as many as the list has     *)
(* elements; the empty list gives a success holding the empty list.         *)
C22_Sequence ==
    last.op = "sequence" =>
        IF FailureIndexes # {}
        THEN ReturnedNewFailure(ErrorOf(last.args[Leftmost(FailureIndexes)]))
        ELSE /\ ReturnedNewSuccess(Arr([i \in DOMAIN last.args |-> ValueOf(last.args[i])]))
             /\ Len(heap[last.ret.ref].value.items) = Len(last.args)
             /\ last.args = <<>> => heap[last.ret.ref].value = Arr(<<>>)

C22_Witness ==
    /\ last.op = "sequence"
    /\ Len(last.args) = 3
    /\ IsSuccess(last.args[1])
    /\ IsFailure(last.args[2])
    /\ IsSuccess(last.args[3])
    /\ ReturnedNewFailure(ErrorOf(last.args[2]))

(* C23: partition(list) does not throw and returns the success payloads of  *)
(* the list in input order and the failure payloads of the list in input    *)
(* order; the two lengths add up to the length of the list.                 *)
C23_Partition ==
    last.op = "partition" =>
        /\ ~last.thrown
        /\ last.ret = Arr(<<Arr(OkPayloads), Arr(ErrorPayloads)>>)
        /\ Len(last.ret.items[1].items) + Len(last.ret.items[2].items) = Len(last.args)
        /\ Len(heap) = last.pre

C23_Witness ==
    /\ last.op = "partition"
    /\ Len(last.args) = 3
    /\ IsFailure(last.args[1])
    /\ IsSuccess(last.args[2])
    /\ last.args[3] = last.args[1]
    /\ ValueOf(last.args[2]) = Num(1)
    /\ ErrorOf(last.args[1]) = Null
    /\ last.ret = Arr(<<Arr(<<Num(1)>>), Arr(<<Null, Null>>)>>)

(* What sequence returns for the list, on the instances that existed. *)
SequenceOfSameList ==
    sequence(SubSeq(heap, 1, last.pre), [i \in DOMAIN last.args |-> last.args[i].ref])

(* C25: sequenceAll(list) returns a failure holding every failure payload   *)
(* of the list, in input order, when there is one, and its first is the     *)
(* payload sequence returns for the list; else it returns a success holding *)
(* every success payload in input order.                                    *)
C25_SequenceAll ==
    last.op = "sequenceAll" =>
        IF FailureIndexes # {}
        THEN /\ ReturnedNewFailure(Arr(ErrorPayloads))
             /\ LET first == SequenceOfSameList
                IN  /\ ~first.thrown
                    /\ ~first.heap[first.ret.ref]._isOk
                    /\ first.heap[first.ret.ref].error = ErrorPayloads[1]
        ELSE /\ ReturnedNewSuccess(Arr(OkPayloads))
             /\ Len(OkPayloads) = Len(last.args)

C25_Witness ==
    /\ last.op = "sequenceAll"
    /\ Len(last.args) = 3
    /\ ErrorOf(last.args[1]) = Num(1)
    /\ ErrorOf(last.args[2]) = Null
    /\ last.args[3] = last.args[1]
    /\ IsFailure(last.args[1])
    /\ IsFailure(last.args[2])
    /\ ReturnedNewFailure(Arr(<<Num(1), Null, Num(1)>>))

-----------------------------------------------------------------------------
(* Vocabulary of the traverse properties: last is traverse(values, fn). *)

TraversedValues == last.args[1].items

(* values.map(fn) and then sequence, on the instances that existed. *)
MapThenSequence ==
    traverse_mapThenSequence(SubSeq(heap, 1, last.pre), TraversedValues, last.args[2])

(* Two outcomes are the same exception, or Eithers in the same state with   *)
(* the same payload.                                                        *)
SameOutcome(a, b) ==
    /\ a.thrown = b.thrown
    /\ IF a.thrown
       THEN a.ret = b.ret
       ELSE a.heap[a.ret.ref] = b.heap[b.ret.ref]

TraverseOutcome == [heap |-> heap, ret |-> last.ret, thrown |-> last.thrown]

(* In calls, an invocation that returned a failure (in the heap h) comes    *)
(* before an invocation that threw.                                         *)
ThrowsAfterFailure(calls, h) ==
    \E i, j \in DOMAIN calls :
        /\ i < j
        /\ ~calls[i].thrown
        /\ ~h[calls[i].ret.ref]._isOk
        /\ calls[j].thrown

(* C24 as stated: traverse(list, fn) has the outcome of mapping fn over the *)
(* whole list and calling sequence on the result, for every list and fn.    *)
C24_TraverseIsMapThenSequence ==
    last.op = "traverse" => SameOutcome(TraverseOutcome, MapThenSequence)

(* C24: traverse(list, fn) has the outcome of mapping fn over the whole     *)
(* list and calling sequence on the result, unless fn throws on an element  *)
(* that follows one it returned a failure for: then traverse returns that   *)
(* failure and the mapping throws.                                          *)
C24_Traverse ==
    last.op = "traverse" =>
        LET mapped == MapThenSequence
        IN  IF ThrowsAfterFailure(mapped.calls, mapped.heap)
            THEN /\ mapped.thrown
                 /\ ReturnedNew
                 /\ Failure(last.ret.ref)
            ELSE SameOutcome(TraverseOutcome, mapped)

C24_Witness ==
    /\ last.op = "traverse"
    /\ last.args = <<Arr(<<Num(1), Str("a"), Num(1)>>), Parse>>
    /\ ReturnedNewFailure(Str("a"))
    /\ ~MapThenSequence.thrown

(* The invocations of traverse that ended the walk: fn returned a failure,  *)
(* or threw.                                                                *)
Stops ==
    {i \in DOMAIN last.calls :
        \/ last.calls[i].thrown
        \/ Failure(last.calls[i].ret.ref)}

(* C29: traverse invokes fn on the elements from the left, one invocation   *)
(* per element, and the invocation that returns a failure is the last: with *)
(* the first failing element at index k (from 0) there are k+1 invocations; *)
(* with no failing element, one per element.                                *)
C29_TraverseStopsAtFirstFailure ==
    last.op = "traverse" =>
        /\ Len(last.calls) <= Len(TraversedValues)
        /\ \A i \in DOMAIN last.calls :
              /\ last.calls[i].fn = last.args[2]
              /\ last.calls[i].args = <<TraversedValues[i]>>
        /\ IF Stops = {}
           THEN Len(last.calls) = Len(TraversedValues)
           ELSE Stops = {Len(last.calls)}

C29_Witness ==
    /\ last.op = "traverse"
    /\ last.args = <<Arr(<<Num(1), Str("a"), Str("b")>>), Parse>>
    /\ Len(last.calls) = 2
    /\ ReturnedNewFailure(Str("a"))

-----------------------------------------------------------------------------
(* C26: when a callback handed to map, flatMap, mapError, filter, zipWith,  *)
(* recover, recoverWith, tap, tapError, fromPredicate or traverse throws,   *)
(* that invocation is the last of the call and the call throws the same     *)
(* exception instead of returning; no call of Spec turns an exception of a  *)
(* callback into a returned value.                                          *)
C26_CallbackExceptionsPropagate ==
    \A i \in DOMAIN last.calls :
        last.calls[i].thrown =>
            /\ i = Len(last.calls)
            /\ last.thrown
            /\ last.ret = last.calls[i].ret

C26_Witness ==
    /\ last.op = "traverse"
    /\ last.args = <<Arr(<<Num(1), Undef>>), Parse>>
    /\ Len(last.calls) = 2
    /\ last.thrown
    /\ last.ret = Boom

-----------------------------------------------------------------------------
(* x.map(g).map(f), on the instances that existed before the call. *)
MapAfterMap(x, f, g) ==
    LET first == map(SubSeq(heap, 1, last.pre), x, g)
    IN  Then(first, map(first.heap, first.ret.ref, f))

(* C27: on a success holding v, map(identity) returns a success holding v,  *)
(* and for total f and g, map(x => f(g(x))) returns a success holding the   *)
(* value that map(g) followed by map(f) ends with.                          *)
C27_FunctorLaws ==
    last.op = "map" /\ Success(last.self) =>
        /\ last.args[1] = Identity => ReturnedNewSuccess(heap[last.self].value)
        /\ last.args[1].kind = "compose" =>
              LET chained == MapAfterMap(last.self, last.args[1].f, last.args[1].g)
              IN  /\ ~chained.thrown
                  /\ chained.heap[chained.ret.ref]._isOk
                  /\ ReturnedNewSuccess(chained.heap[chained.ret.ref].value)

C27_Witness ==
    /\ last.op = "map"
    /\ heap[last.self] = [value |-> Num(1), error |-> Undef, _isOk |-> TRUE]
    /\ last.args[1] = Compose(Boxed, IsNumber)
    /\ ReturnedNewSuccess(Arr(<<Bool(TRUE)>>))

-----------------------------------------------------------------------------
(* C30: when the operation returns an Either, safeSync returns a new        *)
(* success whose payload is that Either, left as it was, whereas safeAsync  *)
(* returns the Either its operation resolves to and builds nothing.         *)
C30_SafeSyncDoesNotFlatten ==
    /\ last.op = "safeSync" /\ last.args[1].kind = "existing" =>
          /\ ReturnedNewSuccess(Ref(last.args[1].k))
          /\ last.ret.ref # last.args[1].k
          /\ Len(heap) = last.pre + 1
    /\ last.op = "safeAsync" /\ last.args[1].kind = "resolves"
           /\ last.args[1].v.t = "Either" =>
          /\ ~last.thrown
          /\ last.ret = last.args[1].v
          /\ Len(heap) = last.pre

C30_Witness ==
    /\ last.op = "safeSync"
    /\ last.args[1] = Existing(1)
    /\ Failure(1)
    /\ last.ret = Ref(2)
    /\ Success(2)
    /\ heap[2].value = Ref(1)

-----------------------------------------------------------------------------
(* The promise the operation fn returns ends as, when it settles. *)
SettlesTo(fn) ==
    IF fn.kind = "resolves"
    THEN PromiseOf("fulfilled", fn.v)
    ELSE IF fn.kind = "rejects"
         THEN PromiseOf("rejected", fn.reason)
         ELSE PromiseOf("pending", Undef)

(* safeAsync({fn, ErrClass}) with no other call in flight, made when        *)
(* `before` were the instances: the instances and the promise it ends with. *)
Alone(before, fn, ErrClass) ==
    LET start == safeAsync(before, fn, ErrClass)
        end == safeAsyncResumed(start.heap, SettlesTo(fn), ErrClass)
    IN  IF start.calls[1].thrown
        THEN [heap |-> start.heap, promise |-> Settled(start)]
        ELSE IF SettlesTo(fn).state = "pending"
             THEN [heap |-> start.heap, promise |-> PromiseOf("pending", Undef)]
             ELSE [heap |-> end.heap, promise |-> Settled(end)]

(* The promise is in the same state as the call alone leaves its promise    *)
(* in, with the same value: an instance of the same content, and the same   *)
(* instance when it existed before the call.                                *)
AsAlone(promise, pre, fn, ErrClass) ==
    LET alone == Alone(SubSeq(heap, 1, pre), fn, ErrClass)
    IN  /\ promise.state = alone.promise.state
        /\ IF promise.v.t = "Either"
           THEN /\ alone.promise.v.t = "Either"
                /\ heap[promise.v.ref] = alone.heap[alone.promise.v.ref]
                /\ promise.v.ref <= pre => promise.v = alone.promise.v
           ELSE promise.v = alone.promise.v

(* C28: whatever calls are in flight and in whatever order their operations *)
(* settle and their tasks go on, the promise of each safeAsync call is      *)
(* pending until the call ends, and then and ever after holds what the      *)
(* call made alone with the same operation and error class ends with.       *)
C28_ConcurrentCallsAreIndependent ==
    /\ \A i \in DOMAIN tasks :
          IF tasks[i].phase = "done"
          THEN AsAlone(tasks[i].promise, tasks[i].pre, tasks[i].fn, tasks[i].ErrClass)
          ELSE tasks[i].promise.state = "pending"
    /\ last.op = "safeAsync" =>
          AsAlone(PromiseOf(IF last.thrown THEN "rejected" ELSE "fulfilled", last.ret),
                  last.pre, last.args[1], last.args[2])

C28_Witness ==
    /\ Len(tasks) = 2
    /\ tasks[1].fn = Rejects(Str("String error"))
    /\ tasks[1].ErrClass = ErrorClass("CustomError")
    /\ tasks[2].fn = Resolves(Num(1))
    /\ tasks[1].phase = "done" /\ tasks[2].phase = "done"
    /\ tasks[1].promise = PromiseOf("fulfilled", Ref(2))
    /\ tasks[2].promise = PromiseOf("fulfilled", Ref(1))
    /\ heap[1] = [value |-> Num(1), error |-> Undef, _isOk |-> TRUE]
    /\ heap[2] = [value |-> Undef, error |-> Construct("CustomError", "String error"),
                 _isOk |-> FALSE]

=============================================================================
